---- MODULE Spec2Model ----
(***************************************************************************)
(* A model of the ApproxIQUCT agent                                        *)
(* (dyna_gym/agents/iquct/approx_iquct.py): the search tree, the rollout   *)
(* loop of act (selection, expansion, evaluation, backpropagation), the    *)
(* History Store, the model update and reset.                              *)
(*                                                                         *)
(* Numbers: returns are real numbers in the program.  They are modelled    *)
(* as exact rationals <<n, d>> in lowest terms (d > 0), so that the mean   *)
(* of sampled returns and the discounting by gamma are computed, not       *)
(* abstracted.                                                             *)
(***************************************************************************)
EXTENDS Integers, Sequences, FiniteSets, TLC

\* ------------------------------------------------------------------------
\* Bounds of the model
\* ------------------------------------------------------------------------

\* The number of rollouts one agent runs in all: the rollout budget it is
\* constructed with is at most MaxWork, and it is called as long as all the
\* rollouts of its act calls together do not exceed MaxWork.
MaxWork == 4

\* The number of act calls made on one agent.
MaxActs == 2

\* The number of reset calls made on one agent.
MaxResets == 1

\* ------------------------------------------------------------------------
\* Exact rational arithmetic
\* ------------------------------------------------------------------------

Abs(i) == IF i < 0 THEN -i ELSE i

RECURSIVE GCD(_, _)
GCD(a, b) == IF b = 0 THEN a ELSE GCD(b, a % b)

RNorm(n, d) ==
    LET g == GCD(Abs(n), d)
    IN  <<n \div g, d \div g>>

RInt(i) == <<i, 1>>

RAdd(a, b) == RNorm(a[1] * b[2] + b[1] * a[2], a[2] * b[2])

RMul(a, b) == RNorm(a[1] * b[1], a[2] * b[2])

RDivInt(a, n) == RNorm(a[1], a[2] * n)

RLess(a, b) == a[1] * b[2] < b[1] * a[2]

RECURSIVE RPow(_, _)
RPow(a, t) == IF t = 0 THEN RInt(1) ELSE RMul(a, RPow(a, t - 1))

RECURSIVE RSum(_)
RSum(s) == IF s = <<>> THEN RInt(0) ELSE RAdd(Head(s), RSum(Tail(s)))

\* ------------------------------------------------------------------------
\* Sequences
\* ------------------------------------------------------------------------

Last(s) == s[Len(s)]

Front(s) == SubSeq(s, 1, Len(s) - 1)

\* The concatenation of a sequence of sequences.
RECURSIVE Flatten(_)
Flatten(ss) == IF ss = <<>> THEN <<>> ELSE Head(ss) \o Flatten(Tail(ss))

\* s, rearranged by the permutation p of 1..Len(s).
Permuted(s, p) == [i \in 1..Len(s) |-> s[p[i]]]

Perms(n) == {p \in [1..n -> 1..n] : \A i, j \in 1..n : p[i] = p[j] => i = j}

IsPrefix(s, t) == Len(s) <= Len(t) /\ SubSeq(t, 1, Len(s)) = s

\* ------------------------------------------------------------------------
\* Action spaces (gym.spaces) and their enumeration
\* ------------------------------------------------------------------------

Discrete(n) == [kind |-> "Discrete", n |-> n, spaces |-> <<>>]

Tuple(spaces) == [kind |-> "Tuple", n |-> 0, spaces |-> spaces]

\* Any space that is neither Discrete nor Tuple.
Box == [kind |-> "Box", n |-> 0, spaces |-> <<>>]

\* Whether combinations(space) raises NotImplementedError: the list
\* comprehension of the Tuple branch enumerates every sub-space eagerly.
RECURSIVE combinations_raises(_)
combinations_raises(space) ==
    CASE space.kind = "Discrete" -> FALSE
      [] space.kind = "Tuple" ->
            \E i \in 1..Len(space.spaces) : combinations_raises(space.spaces[i])
      [] OTHER -> TRUE

\* itertools.product of a sequence of sequences, in its order (the last
\* position varies fastest); the product of no sequence is one empty tuple.
RECURSIVE product(_)
product(seqs) ==
    IF seqs = <<>> THEN << <<>> >>
    ELSE LET rest == product(Tail(seqs))
         IN  Flatten([i \in 1..Len(Head(seqs)) |->
                        [j \in 1..Len(rest) |-> <<Head(seqs)[i]>> \o rest[j]]])

\* combinations with a Discrete space enumerated from 1.
RECURSIVE combinations_FromOne(_)
combinations_FromOne(space) ==
    CASE space.kind = "Discrete" -> [i \in 1..space.n |-> i]
      [] space.kind = "Tuple" ->
            product([i \in 1..Len(space.spaces) |->
                        combinations_FromOne(space.spaces[i])])
      [] OTHER -> <<>>

\* combinations(space), as the sequence it yields (when it does not raise).
RECURSIVE combinations(_)
combinations(space) ==
    CASE space.kind = "Discrete" -> [i \in 1..space.n |-> i - 1]
      [] space.kind = "Tuple" ->
            product([i \in 1..Len(space.spaces) |-> combinations(space.spaces[i])])
      [] OTHER -> <<>>

\* ------------------------------------------------------------------------
\* Configuration of the agent (ApproxIQUCT.__init__)
\* ------------------------------------------------------------------------

\* gamma, the discount factor, in (0, 1].
gamma == <<1, 2>>

\* max_depth, where the evaluation is cut off.
max_depth == 1

\* ucb_constant is 0 in this model: the exploration bonus
\* ucb_constant * sqrt(log(visits) / len(sampled_returns)) is irrational in
\* general; with the constant 0 it is still evaluated (and may raise) and
\* contributes 0 to the score.

\* ------------------------------------------------------------------------
\* The environment (an external collaborator; a small synthetic MDP)
\* ------------------------------------------------------------------------

\* States are 0..TermState; TermState is the only terminal state.
TermState == 3

States == 0..TermState

\* The states the environment is in when act is called.
StartStates == {0, TermState - 1, TermState}

Terminal(s) == s = TermState

\* env.equality_operator
equality_operator(a, b) == a = b

\* The integer an action stands for: the action itself in a Discrete space,
\* the sum over the components in a Tuple space.
RECURSIVE ActionCode(_, _)
ActionCode(space, a) ==
    IF space.kind = "Discrete" THEN a
    ELSE RSum([i \in 1..Len(space.spaces) |->
                  RInt(ActionCode(space.spaces[i], a[i]))])[1]

Cap(s) == IF s > TermState THEN TermState ELSE s

Outcome(s, a_code, s_p) ==
    [state_p |-> s_p, reward |-> RInt(s + a_code + 1), terminal |-> Terminal(s_p)]

\* env.transition(s, a, is_model_dynamic): the set of (next state, reward,
\* terminal) it may return.  An even action moves one state on and, in the
\* stochastic environment, possibly two; an odd action moves two states on.
transition(space, stoch, s, a) ==
    LET e == ActionCode(space, a) % 2
    IN  IF e = 1 THEN {Outcome(s, e, Cap(s + 2))}
        ELSE IF stoch THEN {Outcome(s, e, Cap(s + 1)), Outcome(s, e, Cap(s + 2))}
        ELSE {Outcome(s, e, Cap(s + 1))}

\* ------------------------------------------------------------------------
\* The value estimator (an external collaborator, self.model): a stand-in
\* that remembers the last target it was trained on per action, and counts
\* the calls of update and reset.
\* ------------------------------------------------------------------------

ModelInit == [table |-> <<>>, updates |-> 0, resets |-> 0]

HasEntry(table, a) == \E i \in 1..Len(table) : table[i].a = a

EntryOf(table, a) == CHOOSE i \in 1..Len(table) : table[i].a = a

\* model.prediction_at(a, x), with x = <<state, depth, value>>.
prediction_at(m, a, x) ==
    IF HasEntry(m.table, a) THEN m.table[EntryOf(m.table, a)].y ELSE x[3]

RECURSIVE Train(_, _)
Train(table, data) ==
    IF data = <<>> THEN table
    ELSE LET d == Head(data)
             t == IF HasEntry(table, d.a)
                  THEN [table EXCEPT ![EntryOf(table, d.a)].y = d.y]
                  ELSE Append(table, [a |-> d.a, y |-> d.y])
         IN  Train(t, Tail(data))

\* model.update(data)
model_update(m, data) ==
    [m EXCEPT !.table = Train(m.table, data), !.updates = m.updates + 1]

\* model.reset()
model_reset(m) == [table |-> <<>>, updates |-> m.updates, resets |-> m.resets + 1]

\* ------------------------------------------------------------------------
\* State
\* ------------------------------------------------------------------------

VARIABLES
    action_space,       \* env.action_space
    stochastic,         \* whether the environment is the stochastic one
    rollouts,           \* self.rollouts
    histories,          \* self.histories: a sequence of History
    model,              \* self.model
    pc,                 \* where the agent is: idle, inside act, returned, failed
    acts,               \* the number of act calls so far
    done,               \* act's argument done (is the root terminal)
    dn,                 \* the DecisionNode objects of the tree; dn[1] is root
    cn,                 \* the ChanceNode objects of the tree
    k,                  \* the number of rollouts completed in this act call
    rewards,            \* act's local rewards
    reward_nodes,       \* the chance node each entry of rewards was recorded at
    node,               \* act's local node: <<"D", i>>, <<"C", i>> or None
    terminal,           \* act's local terminal
    select,             \* act's local select
    expand_chance_node, \* act's local expand_chance_node
    state_p,            \* act's local state_p
    t,                  \* act's local t
    estimate,           \* act's local estimate
    state,              \* act's local state
    result,             \* what act returned: <<action>>, or <<>>
    error,              \* the exception act raised, or ""
    obs                 \* an observer's log of the random draws (not program state)

vars == <<action_space, stochastic, rollouts, histories, model, pc, acts, done,
          dn, cn, k, rewards, reward_nodes, node, terminal, select,
          expand_chance_node, state_p, t, estimate, state, result, error, obs>>

config == <<action_space, stochastic, rollouts>>

locals == <<rewards, reward_nodes, node, terminal, select, expand_chance_node,
            state_p, t, estimate, state>>

None == <<"None", 0>>

D(i) == <<"D", i>>

C(i) == <<"C", i>>

\* The states in which no act call is running.
Idle == {"idle", "returned", "failed"}

\* DecisionNode.__init__; parent is a chance node's index, or 0 for None.
DecisionNode(parent, s, is_terminal) ==
    [parent |-> parent, state |-> s, is_terminal |-> is_terminal,
     depth |-> IF parent = 0 THEN 0 ELSE cn[parent].depth + 1,
     children |-> <<>>, explored_children |-> 0, visits |-> 0]

\* History.corresponds_to
corresponds_to(h, s, a) == h.action = a /\ equality_operator(h.state, s)

\* ChanceNode.__init__.  The field history holds the list object h.data of
\* the last History that corresponds (an index into hist: the node and the
\* History share the list), or 0 for the node's own empty list.
ChanceNode(parent, parent_node, a, hist) ==
    LET matches == {i \in 1..Len(hist) : corresponds_to(hist[i], parent_node.state, a)}
    IN  [parent |-> parent, action |-> a, depth |-> parent_node.depth,
         children |-> <<>>, sampled_returns |-> <<>>,
         history |-> IF matches = {} THEN 0
                     ELSE CHOOSE i \in matches : \A j \in matches : j <= i]

\* The list a chance node's history field refers to, as it is now.
NodeHistory(c) ==
    IF c.history = 0 THEN <<>> ELSE histories[c.history].data

\* snapshot_value(node) raises ZeroDivisionError on no sampled return.
snapshot_value_raises(c) == Len(c.sampled_returns) = 0

snapshot_value(c) == RDivInt(RSum(c.sampled_returns), Len(c.sampled_returns))

\* ApproxIQUCT.inferred_value
inferred_value(c) ==
    IF NodeHistory(c) # <<>>
    THEN prediction_at(model, c.action,
                       <<dn[c.parent].state, c.depth, snapshot_value(c)>>)
    ELSE snapshot_value(c)

\* The exception ApproxIQUCT.ucb raises on a chance node, or "".
ucb_raises(c) ==
    IF snapshot_value_raises(c) THEN "ZeroDivisionError"
    ELSE IF dn[c.parent].visits = 0 THEN "ValueError"
    ELSE ""

\* ApproxIQUCT.ucb, with ucb_constant = 0.
ucb(c) == inferred_value(c)

\* Python's max(ids, key = ...), given the keys of the elements in order:
\* the first element whose key no other exceeds.
MaxFirst(ids, keys) ==
    LET best == {i \in 1..Len(ids) : \A j \in 1..Len(ids) : ~RLess(keys[i], keys[j])}
    IN  ids[CHOOSE i \in best : \A j \in best : i <= j]

\* ------------------------------------------------------------------------
\* The observer: when it is on, it logs the outcomes of random.shuffle and
\* the actions the default policy samples in the running act call, what the
\* agent held as the call began, and the same of the call before with the
\* action that call returned.  It reads the program and never steers it.
\* ------------------------------------------------------------------------

ObsInit(on) ==
    [on |-> on, entry |-> <<>>, shuffles |-> <<>>, samples |-> <<>>,
     prev_entry |-> <<>>, prev_shuffles |-> <<>>, prev_samples |-> <<>>,
     prev_result |-> <<>>]

\* An act call begins in environment state s.
ObsBegin(s) ==
    IF ~obs.on THEN obs
    ELSE [on |-> TRUE, entry |-> <<s, histories, model.table>>,
          shuffles |-> <<>>, samples |-> <<>>,
          prev_entry |-> obs.entry, prev_shuffles |-> obs.shuffles,
          prev_samples |-> obs.samples, prev_result |-> result]

ObsShuffle(p) ==
    IF ~obs.on THEN obs ELSE [obs EXCEPT !.shuffles = Append(@, p)]

ObsSample(a) ==
    IF ~obs.on THEN obs ELSE [obs EXCEPT !.samples = Append(@, a)]

\* ------------------------------------------------------------------------
\* act: the rollout loop
\* ------------------------------------------------------------------------

\* The head of the rollout loop: the locals as a rollout starts.  t,
\* estimate, state and state_p are assigned before they are read in every
\* rollout; they are given fixed values here.
StartRollout ==
    /\ rewards' = <<>>
    /\ reward_nodes' = <<>>
    /\ node' = D(1)
    /\ terminal' = done'
    /\ select' = TRUE
    /\ expand_chance_node' = FALSE
    /\ state_p' = 0
    /\ t' = 0
    /\ estimate' = RInt(0)
    /\ state' = 0

\* act raises: the exception leaves act, the agent keeps what it holds.
Raise(e) ==
    /\ pc' = "failed"
    /\ error' = e

\* act(env, done) is called with the environment in state s: the root is
\* built and the first rollout starts.
ActBegin(s) ==
    /\ pc \in Idle
    /\ acts < MaxActs
    /\ (acts + 1) * rollouts <= MaxWork
    /\ acts' = acts + 1
    /\ done' = Terminal(s)
    /\ dn' = << [parent |-> 0, state |-> s, is_terminal |-> Terminal(s), depth |-> 0,
                 children |-> <<>>, explored_children |-> 0, visits |-> 0] >>
    /\ cn' = <<>>
    /\ k' = 0
    /\ StartRollout
    /\ pc' = "select"
    /\ result' = <<>>
    /\ error' = ""
    /\ obs' = ObsBegin(s)
    /\ UNCHANGED <<config, histories, model>>

\* Whether the selection loop runs one more iteration.
Selecting == pc = "select" /\ select /\ Len(dn[1].children) # 0

\* One iteration of the selection loop at a decision node.
SelectDecision ==
    /\ Selecting
    /\ node[1] = "D"
    /\ LET i == node[2]
           d == dn[i]
           failing == {j \in 1..Len(d.children) : ucb_raises(cn[d.children[j]]) # ""}
       IN  IF d.is_terminal
           THEN \* Terminal, evaluate parent
                /\ node' = IF d.parent = 0 THEN None ELSE C(d.parent)
                /\ select' = FALSE
                /\ UNCHANGED <<dn, pc, error>>
           ELSE IF d.explored_children < Len(d.children)
           THEN \* Go to unexplored chance node
                /\ dn' = [dn EXCEPT ![i].explored_children = @ + 1]
                /\ node' = C(d.children[d.explored_children + 1])
                /\ select' = FALSE
                /\ UNCHANGED <<pc, error>>
           ELSE IF failing # {}
           THEN \* max evaluates ucb on the children in order
                /\ Raise(ucb_raises(cn[d.children[CHOOSE j \in failing :
                                                    \A j2 \in failing : j <= j2]]))
                /\ UNCHANGED <<dn, node, select>>
           ELSE \* Go to chance node maximizing UCB using inferred values
                /\ node' = C(MaxFirst(d.children,
                                   [j \in 1..Len(d.children) |-> ucb(cn[d.children[j]])]))
                /\ UNCHANGED <<dn, select, pc, error>>
    /\ UNCHANGED <<config, obs, histories, model, acts, done, cn, k, rewards, reward_nodes,
                   terminal, expand_chance_node, state_p, t, estimate, state, result>>

\* The child of chance node c that the loop over c's children finds for the
\* sampled state sp, or 0: the loop leaves at its first iteration, on either
\* branch.
MatchingChild(c, sp) ==
    IF equality_operator(dn[c.children[1]].state, sp) THEN c.children[1] ELSE 0

\* One iteration of the selection loop at a chance node.
SelectChance ==
    /\ Selecting
    /\ node[1] = "C"
    /\ LET c == cn[node[2]]
       IN  \E o \in transition(action_space, stochastic, dn[c.parent].state, c.action) :
              /\ state_p' = o.state_p
              /\ terminal' = o.terminal
              /\ rewards' = Append(rewards, o.reward)
              /\ reward_nodes' = Append(reward_nodes, node[2])
              /\ IF Len(c.children) = 0
                 THEN \* No child
                      /\ expand_chance_node' = TRUE
                      /\ select' = FALSE
                      /\ UNCHANGED node
                 ELSE IF MatchingChild(c, o.state_p) # 0
                 THEN \* State already sampled
                      /\ node' = D(MatchingChild(c, o.state_p))
                      /\ UNCHANGED <<expand_chance_node, select>>
                 ELSE \* New state sampled
                      /\ expand_chance_node' = TRUE
                      /\ select' = FALSE
                      /\ UNCHANGED node
    /\ UNCHANGED <<config, obs, histories, model, pc, acts, done, dn, cn, k, t, estimate,
                   state, result, error>>

\* The tree after the expansion of chance node c by a decision node for
\* (state_p, terminal): <<dn, cn>>.
ExpandChance(c) ==
    << Append(dn, DecisionNode(c, state_p, terminal)),
       [cn EXCEPT ![c].children = Append(@, Len(dn) + 1)] >>

\* ExpandDecision with the child that the expansion enters not counted as
\* explored.
ExpandDecision_NotCounting(dn1, cn1, i, p) ==
    LET acts_ == Permuted(combinations(action_space), p)
        n == Len(acts_)
    IN  << [dn1 EXCEPT ![i].children = [j \in 1..n |-> Len(cn1) + j]],
           cn1 \o [j \in 1..n |-> ChanceNode(i, dn1[i], acts_[j], histories)] >>

\* ExpandDecision with a chance node for the first action of the shuffled
\* list only.
ExpandDecision_FirstOnly(dn1, cn1, i, p) ==
    LET acts_ == Permuted(combinations(action_space), p)
    IN  << [dn1 EXCEPT ![i].children = <<Len(cn1) + 1>>,
                       ![i].explored_children = @ + 1],
           Append(cn1, ChanceNode(i, dn1[i], acts_[1], histories)) >>

\* The tree <<dn1, cn1>> after the expansion of decision node i: one chance
\* node per action of the space, in the order the shuffle p leaves them in.
ExpandDecision(dn1, cn1, i, p) ==
    LET acts_ == Permuted(combinations(action_space), p)
        n == Len(acts_)
    IN  << [dn1 EXCEPT ![i].children = [j \in 1..n |-> Len(cn1) + j],
                       ![i].explored_children = @ + 1],
           cn1 \o [j \in 1..n |-> ChanceNode(i, dn1[i], acts_[j], histories)] >>

\* The selection loop is left: expansion, and the start of the evaluation.
Expand ==
    /\ pc = "select"
    /\ ~Selecting
    /\ LET grow == expand_chance_node /\ node[1] = "C"
           tree1 == IF grow THEN ExpandChance(node[2]) ELSE <<dn, cn>>
           node1 == IF grow THEN D(Len(dn) + 1) ELSE node
       IN  IF node1[1] = "D" /\ ~terminal /\ combinations_raises(action_space)
           THEN \* combinations raises before node.children is assigned
                /\ Raise("NotImplementedError")
                /\ dn' = tree1[1]
                /\ cn' = tree1[2]
                /\ node' = node1
                /\ UNCHANGED <<t, estimate, state, obs>>
           ELSE \E p \in Perms(IF node1[1] = "D" /\ ~terminal
                               THEN Len(combinations(action_space)) ELSE 0) :
                LET open == node1[1] = "D" /\ ~terminal
                    tree2 == IF open
                             THEN ExpandDecision(tree1[1], tree1[2], node1[2], p)
                             ELSE tree1
                    node2 == IF node1[1] # "D" THEN node1
                             ELSE IF terminal
                             THEN (IF tree1[1][node1[2]].parent = 0 THEN None
                                   ELSE C(tree1[1][node1[2]].parent))
                             ELSE C(tree2[1][node1[2]].children[1])
                IN  /\ dn' = tree2[1]
                    /\ cn' = tree2[2]
                    /\ node' = node2
                    /\ obs' = IF open THEN ObsShuffle(p) ELSE obs
                    /\ IF node2 = None
                       THEN \* state = node.parent.state on None
                            /\ Raise("AttributeError")
                            /\ UNCHANGED <<t, estimate, state>>
                       ELSE /\ t' = 0
                            /\ estimate' = RInt(0)
                            /\ state' = tree2[1][tree2[2][node2[2]].parent].state
                            /\ pc' = IF terminal THEN "backprop" ELSE "eval"
                            /\ UNCHANGED error
    /\ UNCHANGED <<config, histories, model, acts, done, k, rewards, reward_nodes,
                   terminal, select, expand_chance_node, state_p, result>>

\* EvalStep with the loop started over at the depth cutoff, not left.
EvalStep_Restarting ==
    /\ pc = "eval"
    /\ ~terminal
    /\ \E i \in 1..Len(combinations(action_space)) :
       \E o \in transition(action_space, stochastic, state,
                           combinations(action_space)[i]) :
          LET again == ~o.terminal /\ cn[node[2]].depth + (t + 1) > max_depth
          IN  /\ state' = IF again THEN dn[cn[node[2]].parent].state ELSE o.state_p
              /\ terminal' = o.terminal
              /\ estimate' = IF again THEN RInt(0)
                             ELSE RAdd(estimate, RMul(o.reward, RPow(gamma, t)))
              /\ t' = IF again THEN 0 ELSE t + 1
              /\ pc' = IF o.terminal THEN "backprop" ELSE "eval"
    /\ UNCHANGED <<config, histories, model, acts, done, dn, cn, k, rewards,
                   reward_nodes, node, select, expand_chance_node, state_p, result,
                   error, obs>>

\* One iteration of the evaluation loop: the default policy samples an
\* action of the space, the environment moves.
EvalStep ==
    /\ pc = "eval"
    /\ ~terminal
    /\ \E i \in 1..Len(combinations(action_space)) :
       \E o \in transition(action_space, stochastic, state,
                           combinations(action_space)[i]) :
          /\ state' = o.state_p
          /\ terminal' = o.terminal
          /\ estimate' = RAdd(estimate, RMul(o.reward, RPow(gamma, t)))
          /\ t' = t + 1
          /\ pc' = IF o.terminal \/ cn[node[2]].depth + (t + 1) > max_depth
                   THEN "backprop" ELSE "eval"
          /\ obs' = ObsSample(combinations(action_space)[i])
    /\ UNCHANGED <<config, histories, model, acts, done, dn, cn, k, rewards,
                   reward_nodes, node, select, expand_chance_node, state_p, result,
                   error>>

\* BackpropFrom with the visits of the decision nodes left as they are.
RECURSIVE BackpropFrom_NoVisits(_, _, _, _)
BackpropFrom_NoVisits(c, est, rw, tree) ==
    IF c = 0 THEN tree
    ELSE LET d == tree[2][c].parent
         IN  BackpropFrom_NoVisits(
                tree[1][d].parent,
                IF Len(rw) # 0 THEN RAdd(Last(rw), RMul(gamma, est)) ELSE est,
                IF Len(rw) # 0 THEN Front(rw) ELSE rw,
                << tree[1],
                   [tree[2] EXCEPT ![c].sampled_returns = Append(@, est)] >>)

\* BackpropFrom with a visit counted at the decision node above the node the
\* rollout ended at, and at no other.
BackpropFrom_VisitsAtLeaf(c, est, rw, tree) ==
    IF c = 0 THEN tree
    ELSE LET d == tree[2][c].parent
         IN  BackpropFrom_NoVisits(
                tree[1][d].parent,
                IF Len(rw) # 0 THEN RAdd(Last(rw), RMul(gamma, est)) ELSE est,
                IF Len(rw) # 0 THEN Front(rw) ELSE rw,
                << [tree[1] EXCEPT ![d].visits = @ + 1],
                   [tree[2] EXCEPT ![c].sampled_returns = Append(@, est)] >>)

\* BackpropFrom with the loop left after the node the rollout ended at.
BackpropFrom_LeafOnly(c, est, rw, tree) ==
    IF c = 0 THEN tree
    ELSE << [tree[1] EXCEPT ![tree[2][c].parent].visits = @ + 1],
            [tree[2] EXCEPT ![c].sampled_returns = Append(@, est)] >>

\* The backpropagation loop from chance node c (0: None) with the running
\* estimate est and the rewards rw, on the tree tree = <<dn, cn>>.
RECURSIVE BackpropFrom(_, _, _, _)
BackpropFrom(c, est, rw, tree) ==
    IF c = 0 THEN tree
    ELSE LET d == tree[2][c].parent
         IN  BackpropFrom(
                tree[1][d].parent,
                IF Len(rw) # 0 THEN RAdd(Last(rw), RMul(gamma, est)) ELSE est,
                IF Len(rw) # 0 THEN Front(rw) ELSE rw,
                << [tree[1] EXCEPT ![d].visits = @ + 1],
                   [tree[2] EXCEPT ![c].sampled_returns = Append(@, est)] >>)

\* Backprop with the History Store updated at the end of every rollout.
Backprop_UpdatingHistories ==
    /\ pc = "backprop"
    /\ LET tree == BackpropFrom(node[2], estimate, rewards, <<dn, cn>>)
       IN  /\ dn' = tree[1]
           /\ cn' = tree[2]
    /\ k' = k + 1
    /\ UNCHANGED done
    /\ StartRollout
    /\ pc' = IF k + 1 < rollouts THEN "select" ELSE "update_histories"
    /\ histories' = Append(histories, [state |-> dn[1].state, action |-> 0, data |-> <<>>])
    /\ UNCHANGED <<config, obs, model, acts, result, error>>

\* Backprop with nothing propagated from a rollout that ended in a terminal
\* state during selection or expansion.
Backprop_SkippingTerminal ==
    /\ pc = "backprop"
    /\ LET tree == IF t = 0 /\ terminal THEN <<dn, cn>>
                   ELSE BackpropFrom(node[2], estimate, rewards, <<dn, cn>>)
       IN  /\ dn' = tree[1]
           /\ cn' = tree[2]
    /\ k' = k + 1
    /\ UNCHANGED done
    /\ StartRollout
    /\ pc' = IF k + 1 < rollouts THEN "select" ELSE "update_histories"
    /\ UNCHANGED <<config, obs, histories, model, acts, result, error>>

\* The backpropagation of one rollout, and the head of the rollout loop.
Backprop ==
    /\ pc = "backprop"
    /\ LET tree == BackpropFrom(node[2], estimate, rewards, <<dn, cn>>)
       IN  /\ dn' = tree[1]
           /\ cn' = tree[2]
    /\ k' = k + 1
    /\ UNCHANGED done
    /\ StartRollout
    /\ pc' = IF k + 1 < rollouts THEN "select" ELSE "update_histories"
    /\ UNCHANGED <<config, obs, histories, model, acts, result, error>>

\* ------------------------------------------------------------------------
\* act: after the rollouts
\* ------------------------------------------------------------------------

HistoryTuple(depth, value) == [depth |-> depth, value |-> value]

\* UpdateHistory with the tuple list of the matching History replaced, not
\* appended to.
UpdateHistory_Overwrite(hist, c) ==
    LET s == dn[c.parent].state
        matches == {i \in 1..Len(hist) : corresponds_to(hist[i], s, c.action)}
        tuple == HistoryTuple(c.depth, snapshot_value(c))
    IN  IF matches # {}
        THEN [hist EXCEPT ![CHOOSE i \in matches : \A j \in matches : i <= j].data =
                              <<tuple>>]
        ELSE Append(hist, [state |-> s, action |-> c.action, data |-> <<tuple>>])

\* UpdateHistory with a new History appended for every chance node, no
\* existing one looked up.
UpdateHistory_AlwaysNew(hist, c) ==
    Append(hist, [state |-> dn[c.parent].state, action |-> c.action,
                  data |-> <<HistoryTuple(c.depth, snapshot_value(c))>>])

\* The History Store hist after the update for chance node c: the tuple is
\* appended to the first History that corresponds, or to a new History.
UpdateHistory(hist, c) ==
    LET s == dn[c.parent].state
        matches == {i \in 1..Len(hist) : corresponds_to(hist[i], s, c.action)}
        tuple == HistoryTuple(c.depth, snapshot_value(c))
    IN  IF matches # {}
        THEN [hist EXCEPT ![CHOOSE i \in matches : \A j \in matches : i <= j].data =
                              Append(@, tuple)]
        ELSE Append(hist, [state |-> s, action |-> c.action, data |-> <<tuple>>])

\* update_children without the recursive call on the grandchildren.
RECURSIVE update_children_NotRecursive(_, _, _)
update_children_NotRecursive(hist, i, j) ==
    IF j > Len(dn[i].children) THEN hist
    ELSE LET c == dn[i].children[j]
         IN  IF cn[c].sampled_returns # <<>>
             THEN update_children_NotRecursive(UpdateHistory(hist, cn[c]), i, j + 1)
             ELSE update_children_NotRecursive(hist, i, j + 1)

\* ApproxIQUCT.update_histories(node, env), as the History Store it leaves:
\* update_histories(hist, i) for decision node i, update_children for the
\* loop over its children from the j-th on, update_grandchildren for the loop
\* over the children of chance node c from the j-th on.
RECURSIVE update_histories(_, _), update_children(_, _, _), update_grandchildren(_, _, _)
update_histories(hist, i) == update_children(hist, i, 1)

update_children(hist, i, j) ==
    IF j > Len(dn[i].children) THEN hist
    ELSE LET c == dn[i].children[j]
         IN  IF cn[c].sampled_returns # <<>>
             THEN update_children(
                     update_grandchildren(UpdateHistory(hist, cn[c]), c, 1), i, j + 1)
             ELSE update_children(hist, i, j + 1)

update_grandchildren(hist, c, j) ==
    IF j > Len(cn[c].children) THEN hist
    ELSE update_grandchildren(update_histories(hist, cn[c].children[j]), c, j + 1)

\* self.update_histories(root, env)
UpdateHistories ==
    /\ pc = "update_histories"
    /\ histories' = update_histories(histories, 1)
    /\ pc' = "update_model"
    /\ UNCHANGED <<config, obs, model, acts, done, dn, cn, k, locals, result, error>>

\* ApproxIQUCT.extract_data(node) raises ZeroDivisionError when a child with
\* a history has no sampled return.
extract_data_raises(i) ==
    \E j \in 1..Len(dn[i].children) :
        LET c == cn[dn[i].children[j]]
        IN  NodeHistory(c) # <<>> /\ snapshot_value_raises(c)

\* ApproxIQUCT.extract_data(node): the examples [a, x, y] of the children of
\* decision node i.
extract_data(i) ==
    Flatten([j \in 1..Len(dn[i].children) |->
        LET c == cn[dn[i].children[j]]
        IN  [l \in 1..Len(NodeHistory(c)) |->
                [a |-> c.action,
                 x |-> <<dn[c.parent].state, NodeHistory(c)[l].depth,
                         NodeHistory(c)[l].value>>,
                 y |-> snapshot_value(c)]]])

\* self.update_model(root)
UpdateModel ==
    /\ pc = "update_model"
    /\ IF extract_data_raises(1)
       THEN /\ Raise("ZeroDivisionError")
            /\ UNCHANGED model
       ELSE /\ model' = IF extract_data(1) # <<>>
                        THEN model_update(model, extract_data(1)) ELSE model
            /\ pc' = "choose"
            /\ UNCHANGED error
    /\ UNCHANGED <<config, obs, histories, acts, done, dn, cn, k, locals, result>>

\* The exception max(root.children, key=self.inferred_value) raises, or "".
choice_raises ==
    IF Len(dn[1].children) = 0 THEN "ValueError"
    ELSE IF \E j \in 1..Len(dn[1].children) :
                snapshot_value_raises(cn[dn[1].children[j]])
    THEN "ZeroDivisionError"
    ELSE ""

\* The root's child that max(root.children, key=self.inferred_value) picks.
BestChild ==
    MaxFirst(dn[1].children,
             [j \in 1..Len(dn[1].children) |-> inferred_value(cn[dn[1].children[j]])])

\* Choose with any child of the highest inferred value returned, not the
\* first.
Choose_AnyBest ==
    /\ pc = "choose"
    /\ IF choice_raises # ""
       THEN /\ Raise(choice_raises)
            /\ UNCHANGED result
       ELSE /\ \E j \in 1..Len(dn[1].children) :
                  /\ inferred_value(cn[dn[1].children[j]]) = inferred_value(cn[BestChild])
                  /\ result' = <<cn[dn[1].children[j]].action>>
            /\ pc' = "returned"
            /\ UNCHANGED error
    /\ UNCHANGED <<config, obs, histories, model, acts, done, dn, cn, k, locals>>

\* return max(root.children, key=self.inferred_value).action
Choose ==
    /\ pc = "choose"
    /\ IF choice_raises # ""
       THEN /\ Raise(choice_raises)
            /\ UNCHANGED result
       ELSE /\ result' = <<cn[BestChild].action>>
            /\ pc' = "returned"
            /\ UNCHANGED error
    /\ UNCHANGED <<config, obs, histories, model, acts, done, dn, cn, k, locals>>

\* ApproxIQUCT.reset(), called between act calls; the tree of the last act
\* call is gone by then.
Reset ==
    /\ pc \in Idle
    /\ model.resets < MaxResets
    /\ histories' = <<>>
    /\ model' = model_reset(model)
    /\ pc' = "idle"
    /\ dn' = <<>>
    /\ cn' = <<>>
    /\ UNCHANGED <<config, obs, acts, done, k, locals, result, error>>

\* ------------------------------------------------------------------------
\* Specifications
\* ------------------------------------------------------------------------

\* The state after ApproxIQUCT.__init__, for an environment with an action
\* space of spaces, stochastic or not as stoch has it, any rollout budget up
\* to MaxWork, and the observer on or off.
InitWith(spaces, stoch, on) ==
    /\ action_space \in spaces
    /\ stochastic \in stoch
    /\ rollouts \in 1..MaxWork
    /\ histories = <<>>
    /\ model = ModelInit
    /\ pc = "idle"
    /\ acts = 0
    /\ done = FALSE
    /\ dn = <<>>
    /\ cn = <<>>
    /\ k = 0
    /\ rewards = <<>>
    /\ reward_nodes = <<>>
    /\ node = D(1)
    /\ terminal = FALSE
    /\ select = TRUE
    /\ expand_chance_node = FALSE
    /\ state_p = 0
    /\ t = 0
    /\ estimate = RInt(0)
    /\ state = 0
    /\ result = <<>>
    /\ error = ""
    /\ obs = ObsInit(on)

\* Two actions, either environment.
Init == InitWith({Discrete(2)}, BOOLEAN, FALSE)

Next ==
    \/ \E s \in StartStates : ActBegin(s)
    \/ SelectDecision
    \/ SelectChance
    \/ Expand
    \/ EvalStep
    \/ Backprop
    \/ UpdateHistories
    \/ UpdateModel
    \/ Choose
    \/ Reset

Spec == Init /\ [][Next]_vars

\* The steps of a running act call.
Running ==
    \/ SelectDecision
    \/ SelectChance
    \/ Expand
    \/ EvalStep
    \/ Backprop
    \/ UpdateHistories
    \/ UpdateModel
    \/ Choose

\* Weak fairness of Running, WF_vars(Running).  act is sequential code: a
\* running call takes its next step, and Running is enabled exactly while a
\* call runs (pc \notin Idle), so the enabledness is written out.  Nothing is
\* asked of the caller, who may call act or reset again, or never.
Fairness == []<>(pc \in Idle) \/ []<><<Running>>_vars

\* Spec with progress of the running act call.
SpecLive == Init /\ [][Next]_vars /\ Fairness

\* Two actions in the deterministic environment, with the observer on.
InitDet == InitWith({Discrete(2)}, {FALSE}, TRUE)

SpecDet == InitDet /\ [][Next]_vars

\* The action spaces of SpecSpaces, in the stochastic environment: discrete
\* spaces, tuples of them (nested and empty too), and spaces that are or hold
\* a space of another kind.
Spaces ==
    { Discrete(1),
      Tuple(<<Discrete(2), Discrete(1)>>),
      Tuple(<<Tuple(<<Discrete(2)>>), Discrete(1)>>),
      Tuple(<<>>),
      Box,
      Tuple(<<Discrete(2), Box>>) }

InitSpaces == InitWith(Spaces, {TRUE}, FALSE)

SpecSpaces == InitSpaces /\ [][Next]_vars

\* ------------------------------------------------------------------------
\* Properties
\* ------------------------------------------------------------------------

\* The number of sampled returns of the root's children.
RECURSIVE SumLen(_)
SumLen(ids) ==
    IF ids = <<>> THEN 0
    ELSE Len(cn[Head(ids)].sampled_returns) + SumLen(Tail(ids))

\* An act call has ended (it returned or raised) and the agent was not reset
\* since.
Ended == pc \in {"returned", "failed"} /\ dn # <<>>

\* C1: every act call on a non-terminal root completes its rollouts and
\* returns the action of the root's child with the highest inferred value
\* (the first one on ties), also when the rollout budget is smaller than the
\* number of actions.
C1_ActReturnsBestAction ==
    (Ended /\ ~done) =>
        /\ pc = "returned"
        /\ k = rollouts
        /\ result = <<cn[BestChild].action>>

\* C2: an act call on a terminal root ends normally, and the root is given
\* no children.
C2_TerminalRootReturns ==
    (Ended /\ done) => (pc = "returned" /\ dn[1].children = <<>>)

\* The History Store h2 holds everything h1 holds: the same entries in the
\* same places, each with the tuples it had as a prefix of those it has.
HistoryGrows(h1, h2) ==
    /\ Len(h1) <= Len(h2)
    /\ \A i \in 1..Len(h1) :
          /\ h2[i].state = h1[i].state
          /\ h2[i].action = h1[i].action
          /\ IsPrefix(h1[i].data, h2[i].data)

\* A step that is a call of reset: the agent goes from between calls to idle
\* without starting an act call.
ResetStep == pc \in Idle /\ pc' = "idle" /\ acts' = acts

\* C3: without a reset the History Store only grows (no entry and no tuple
\* is removed or changed, every entry's tuples stay a prefix of what it holds
\* next) and the estimator is not reset; a reset leaves the History Store
\* empty and calls the estimator's reset exactly once.
C3_HistoryAppendOnly ==
    [][IF ResetStep
       THEN histories' = <<>> /\ model'.resets = model.resets + 1
       ELSE HistoryGrows(histories, histories') /\ model'.resets = model.resets]_vars

\* C3's case: after a reset, two act calls have grown one History entry to
\* two tuples.
C3_Witness ==
    /\ model.resets = 1
    /\ \E i \in 1..Len(histories) : Len(histories[i].data) >= 2

\* C4: while the rollouts of an act call run, neither the History Store nor
\* the estimator changes; the History Store changes only in the one step
\* after the last rollout, the estimator is updated at most once, only in the
\* step after that, and the action is chosen afterwards.
C4_UpdateAfterRollouts ==
    [][/\ pc \in {"select", "eval", "backprop"} =>
             (histories' = histories /\ model' = model)
       /\ (pc \notin Idle /\ histories' # histories) =>
             (pc = "update_histories" /\ k = rollouts /\ model' = model)
       /\ (pc \notin Idle /\ model' # model) =>
             (/\ pc = "update_model"
              /\ histories' = histories
              /\ model'.updates = model.updates + 1
              /\ pc' \in {"choose", "failed"})
       /\ pc = "update_histories" => pc' = "update_model"
       /\ pc = "choose" => (histories' = histories /\ model' = model)]_vars

\* C4's case: the estimator was updated in an act call whose action is about
\* to be chosen.
C4_Witness == pc = "choose" /\ model.updates = 1 /\ Len(histories) >= 2

\* C5: after act returns from a call on a non-terminal root, the root's
\* children hold at least as many sampled returns as there were rollouts.
C5_RootReturnsCoverRollouts ==
    (pc = "returned" /\ ~done) => SumLen(dn[1].children) >= rollouts

\* C5's case: act returned from a call of three rollouts, one of which ended
\* at a terminal child of a chance node of the root.
C5_Witness ==
    /\ pc = "returned"
    /\ ~done
    /\ rollouts = 3
    /\ \E i \in 1..Len(dn) : dn[i].is_terminal /\ dn[i].depth = 1

\* The act call that has just returned and the call before it, which
\* returned too, began with the same environment state, History Store and
\* estimator, in the deterministic environment.
SameStart ==
    /\ pc = "returned"
    /\ obs.on
    /\ ~stochastic
    /\ obs.prev_result # <<>>
    /\ obs.prev_entry = obs.entry

\* C6 as stated: two act calls from the same start (environment state,
\* History Store, estimator, rollout budget) in a deterministic environment,
\* with the same outcomes of every shuffle, return the same action.
C6_SameShufflesSameAction ==
    (SameStart /\ obs.prev_shuffles = obs.shuffles) => result = obs.prev_result

\* C6 as amended: two such calls in which, besides the shuffles, the default
\* policy samples the same actions return the same action.
C6_SameDrawsSameAction ==
    (SameStart /\ obs.prev_shuffles = obs.shuffles /\ obs.prev_samples = obs.samples)
        => result = obs.prev_result

\* C6's case: two calls of two rollouts each have returned from the same
\* start with the same shuffles and the same sampled actions.
C6_Witness ==
    /\ SameStart
    /\ obs.prev_shuffles = obs.shuffles
    /\ obs.prev_samples = obs.samples
    /\ Len(obs.samples) >= 2

\* Whether a is one of the actions of a space: an integer of 0..n-1 in a
\* Discrete space of size n, a tuple of one action per sub-space in a Tuple.
RECURSIVE IsAction(_, _)
IsAction(space, a) ==
    IF space.kind = "Discrete" THEN a \in 0..(space.n - 1)
    ELSE /\ Len(a) = Len(space.spaces)
         /\ \A i \in 1..Len(a) : IsAction(space.spaces[i], a[i])

\* The number of actions of a space of Discrete spaces and Tuples.
RECURSIVE NumActions(_), NumProduct(_)
NumActions(space) ==
    IF space.kind = "Discrete" THEN space.n ELSE NumProduct(space.spaces)

NumProduct(spaces) ==
    IF spaces = <<>> THEN 1 ELSE NumActions(Head(spaces)) * NumProduct(Tail(spaces))

\* Whether a space is Discrete, or a Tuple of such spaces.
RECURSIVE Supported(_)
Supported(space) ==
    \/ space.kind = "Discrete"
    \/ /\ space.kind = "Tuple"
       /\ \A i \in 1..Len(space.spaces) : Supported(space.spaces[i])

\* C7: the children of an expanded decision node carry exactly the actions
\* of the space, each once (0..n-1 for a Discrete space, the Cartesian product
\* for a Tuple); with any other kind of space the expansion raises
\* NotImplementedError and leaves the node it expands without children.
C7_ActionEnumeration ==
    /\ \A i \in 1..Len(dn) :
          dn[i].children # <<>> =>
             /\ Supported(action_space)
             /\ Len(dn[i].children) = NumActions(action_space)
             /\ \A j \in 1..Len(dn[i].children) :
                   IsAction(action_space, cn[dn[i].children[j]].action)
             /\ \A j1, j2 \in 1..Len(dn[i].children) :
                   cn[dn[i].children[j1]].action = cn[dn[i].children[j2]].action
                       => j1 = j2
    /\ (Ended /\ error = "NotImplementedError") =>
          (~Supported(action_space) /\ node[1] = "D" /\ dn[node[2]].children = <<>>)
    /\ (Ended /\ ~done /\ ~Supported(action_space)) => error = "NotImplementedError"
    /\ (pc \notin Idle /\ ~Supported(action_space)) => cn = <<>>

\* C7's case: act returned in a Tuple space, its root expanded by the
\* Cartesian product of the sub-spaces.
C7_Witness ==
    /\ action_space.kind = "Tuple"
    /\ Len(action_space.spaces) = 2
    /\ pc = "returned"
    /\ Len(dn[1].children) = 2

\* C8: the children of a chance node are pairwise distinct under the
\* environment's equality test.
C8_ChildrenDistinct ==
    \A c \in 1..Len(cn) :
        \A i, j \in 1..Len(cn[c].children) :
            equality_operator(dn[cn[c].children[i]].state, dn[cn[c].children[j]].state)
                => i = j

\* C9: while an act call runs, the history of every chance node of the tree
\* stays what it is; an append to the History Store adds nothing to it.
\* (Stated for the rollout budgets that cover every action of the root.)
C9_NodeHistoryFrozen ==
    [][(pc \notin Idle /\ rollouts >= Len(combinations(action_space))) =>
          \A c \in 1..Len(cn) : NodeHistory(cn[c])' = NodeHistory(cn[c])]_vars

\* The value the backpropagation of this step appends to chance node c.
Appended(c) == Last(cn'[c].sampled_returns)

\* C10: in the backpropagation of every rollout, each chance node at which
\* selection recorded a reward r receives r + gamma * (what the next chance
\* node below it on the path receives, or the evaluation's estimate when it
\* is the last one), also when the path ends at a terminal decision node.
C10_DiscountedReturnRecurrence ==
    [][pc = "backprop" =>
          \A i \in 1..Len(rewards) :
              LET c == reward_nodes[i]
                  below == IF i < Len(rewards) THEN reward_nodes[i + 1]
                           ELSE IF node[2] # c THEN node[2] ELSE 0
              IN  Appended(c) =
                      RAdd(rewards[i],
                           RMul(gamma, IF below = 0 THEN estimate ELSE Appended(below)))]_vars

\* The selection loop is about to take the max-score branch at the decision
\* node it is at: the node is not terminal and has no unexplored child.
AtMaxBranch ==
    /\ Selecting
    /\ node[1] = "D"
    /\ ~dn[node[2]].is_terminal
    /\ dn[node[2]].explored_children >= Len(dn[node[2]].children)

\* C11: whenever selection takes the max-score branch at a decision node,
\* the node has been visited at least once and every child of it has at
\* least one sampled return, so that ucb divides by no zero and takes the
\* logarithm of no zero.
C11_UcbDomain ==
    AtMaxBranch =>
        /\ dn[node[2]].visits >= 1
        /\ \A j \in 1..Len(dn[node[2]].children) :
              /\ Len(cn[dn[node[2]].children[j]].sampled_returns) >= 1
              /\ ucb_raises(cn[dn[node[2]].children[j]]) = ""

\* C11's case: selection takes the max-score branch below the root, at a
\* decision node of depth 1.
C11_Witness == AtMaxBranch /\ dn[node[2]].depth = 1

\* A rollout boundary of the running act call: the head of the rollout
\* loop, before the first rollout, between two rollouts or after the last.
RolloutBoundary ==
    \/ pc = "select" /\ select /\ node = D(1) /\ rewards = <<>>
    \/ pc = "update_histories"

\* C12: at every decision node every action is tried once before any is
\* revisited.  The children are entered in their order: a child that is not
\* yet counted as explored has no sampled return, at a rollout boundary every
\* child counted as explored has one, and a child has two or more sampled
\* returns only when every child of the node has at least one.
C12_TriedOnceBeforeRevisited ==
    \A i \in 1..Len(dn) :
        LET ch == dn[i].children
            returns(j) == Len(cn[ch[j]].sampled_returns)
        IN  /\ \A j \in 1..Len(ch) :
                  j > dn[i].explored_children => returns(j) = 0
            /\ RolloutBoundary =>
                  \A j \in 1..Len(ch) :
                      j <= dn[i].explored_children => returns(j) >= 1
            /\ (\E j \in 1..Len(ch) : returns(j) >= 2) =>
                  (\A j \in 1..Len(ch) : returns(j) >= 1)

\* C12's case: a child of a decision node of several actions was entered a
\* second time.
C12_Witness ==
    /\ pc \notin Idle
    /\ \E i \in 1..Len(dn) :
          /\ Len(dn[i].children) >= 2
          /\ \E j \in 1..Len(dn[i].children) :
                Len(cn[dn[i].children[j]].sampled_returns) >= 2

\* C13: the evaluation phase of a rollout whose node has depth d makes at most
\* max(0, max_depth - d) transitions (t counts them): d + t never exceeds
\* max_depth, and no transition is made when d >= max_depth.
C13_EvaluationWithinMaxDepth ==
    pc \in {"eval", "backprop"} =>
        LET d == cn[node[2]].depth
        IN  t <= (IF max_depth - d > 0 THEN max_depth - d ELSE 0)

\* C14: every act call on a non-terminal root ends with all its rollouts
\* done; every rollout that starts is completed (k counts the completed
\* ones), whether its evaluation ends at a terminal state or at the depth
\* cutoff; and the backpropagation of a rollout ends at the root: the root is
\* visited once more and the rollout is over.
C14_ActTerminates ==
    /\ (pc \notin Idle /\ ~done) ~> (pc \in Idle /\ k = rollouts)
    /\ [][pc = "backprop" =>
             /\ dn'[1].visits = dn[1].visits + 1
             /\ k' = k + 1
             /\ pc' \in {"select", "update_histories"}]_vars

\* C14's case: the evaluation of the last of three rollouts has ended at the
\* depth cutoff, the environment having reported no terminal state.
C14_Witness ==
    /\ pc = "backprop"
    /\ ~terminal
    /\ ~done
    /\ rollouts = 3
    /\ k = 2

\* The chance nodes on the selected path of the rollout that is about to be
\* backpropagated: those at which selection took a transition, and the one
\* the rollout ended at.
PathChanceNodes ==
    {reward_nodes[i] : i \in 1..Len(reward_nodes)} \cup {node[2]}

\* C15: a chance node starts with no sampled return; the backpropagation of
\* a rollout appends exactly one value to every chance node on the rollout's
\* selected path and none to any other; and no other step of an act call
\* changes the sampled returns of a chance node.  So at every rollout boundary
\* a chance node's number of sampled returns is the number of rollouts so far
\* that went through it, and it never decreases.
C15_ReturnsCountRollouts ==
    [][pc \notin Idle =>
          /\ Len(cn') >= Len(cn)
          /\ \A c \in (Len(cn) + 1)..Len(cn') : cn'[c].sampled_returns = <<>>
          /\ \A c \in 1..Len(cn) :
                IF pc = "backprop"
                THEN /\ IsPrefix(cn[c].sampled_returns, cn'[c].sampled_returns)
                     /\ Len(cn'[c].sampled_returns) =
                           Len(cn[c].sampled_returns)
                             + (IF c \in PathChanceNodes THEN 1 ELSE 0)
                ELSE cn'[c].sampled_returns = cn[c].sampled_returns]_vars

\* C15's case: a rollout went through a chance node of the root and ended at
\* a chance node below it, and both hold its return.
C15_Witness ==
    /\ RolloutBoundary
    /\ \E c \in 1..Len(cn) :
          /\ cn[c].depth = 1
          /\ Len(cn[c].sampled_returns) = 1
          /\ Len(cn[dn[cn[c].parent].parent].sampled_returns) = 2

\* The number of tuples of the History Store h.
RECURSIVE TotalTuples(_)
TotalTuples(h) ==
    IF h = <<>> THEN 0 ELSE Len(Head(h).data) + TotalTuples(Tail(h))

\* The chance nodes of the tree with at least one sampled return.
Sampled == {c \in 1..Len(cn) : cn[c].sampled_returns # <<>>}

\* The chance nodes of Sampled labelled by (s, a).
SampledAt(s, a) ==
    {c \in Sampled : cn[c].action = a /\ equality_operator(dn[cn[c].parent].state, s)}

\* The tuples the step adds to entry i of the History Store (all of them
\* when the step creates the entry).
Added(i) ==
    IF i <= Len(histories)
    THEN SubSeq(histories'[i].data, Len(histories[i].data) + 1, Len(histories'[i].data))
    ELSE histories'[i].data

\* C16: the History Store update after the search adds, for every chance
\* node of the tree with a sampled return, one HistoryTuple(node depth, node
\* snapshot value) to the entry for the node's (parent state, action), which
\* it creates when there is none, and adds nothing else: every entry gains as
\* many tuples as there are such nodes labelled by it, each tuple is the
\* tuple of one of them and each of them has its tuple there, and the total
\* number of stored tuples grows by the number of such nodes.
C16_HistoryUpdateCoversTree ==
    [][pc = "update_histories" =>
          /\ HistoryGrows(histories, histories')
          /\ TotalTuples(histories') = TotalTuples(histories) + Cardinality(Sampled)
          /\ \A i \in 1..Len(histories') :
                LET h == histories'[i]
                    at == SampledAt(h.state, h.action)
                IN  /\ Len(Added(i)) = Cardinality(at)
                    /\ i > Len(histories) => at # {}
                    /\ \A l \in 1..Len(Added(i)) :
                          \E c \in at :
                              Added(i)[l] = HistoryTuple(cn[c].depth, snapshot_value(cn[c]))
                    /\ \A c \in at :
                          \E l \in 1..Len(Added(i)) :
                              Added(i)[l] = HistoryTuple(cn[c].depth, snapshot_value(cn[c]))
          /\ \A c \in Sampled :
                \E i \in 1..Len(histories') :
                    corresponds_to(histories'[i], dn[cn[c].parent].state, cn[c].action)]_vars

\* C16's case: the update has run in a second act call, on a tree with a
\* sampled chance node below the root's children, and has added to a History
\* entry that was there before the call.
C16_Witness ==
    /\ pc = "update_model"
    /\ acts = 2
    /\ \E c \in Sampled : cn[c].depth = 1
    /\ \E i \in 1..Len(histories) : Len(histories[i].data) >= 2

\* The training examples of chance node c: one per tuple of its history.
ExamplesOf(c) ==
    {[a |-> cn[c].action,
      x |-> <<dn[cn[c].parent].state, NodeHistory(cn[c])[l].depth,
              NodeHistory(cn[c])[l].value>>,
      y |-> snapshot_value(cn[c])] : l \in 1..Len(NodeHistory(cn[c]))}

\* The number of (chance node, tuple of its history) pairs of the tree.
RECURSIVE HistoryPairs(_)
HistoryPairs(c) ==
    IF c = 0 THEN 0 ELSE Len(NodeHistory(cn[c])) + HistoryPairs(c - 1)

\* C17: the batch extracted for the model update holds one example per pair
\* of a chance node of the tree, at any depth, and a tuple of that node's
\* history, and nothing else.  (Stated where every chance node with a history
\* has a sampled return, so that each example's target is defined.)
C17_ExtractCoversTree ==
    (/\ pc = "update_model"
     /\ \A c \in 1..Len(cn) :
           NodeHistory(cn[c]) # <<>> => ~snapshot_value_raises(cn[c]))
        => /\ Len(extract_data(1)) = HistoryPairs(Len(cn))
           /\ {extract_data(1)[l] : l \in 1..Len(extract_data(1))} =
                  UNION {ExamplesOf(c) : c \in 1..Len(cn)}

\* The actions on the children of decision node i, in the children's order.
ChildActions(i) ==
    [j \in 1..Len(dn[i].children) |-> cn[dn[i].children[j]].action]

\* Decision node i is well formed: without children when it is terminal;
\* with one child per action of the space, on pairwise distinct actions,
\* when it is not; and with explored_children within the children list.
WellFormed(i) ==
    /\ dn[i].is_terminal => dn[i].children = <<>>
    /\ ~dn[i].is_terminal =>
          /\ Len(dn[i].children) = Len(combinations(action_space))
          /\ {ChildActions(i)[j] : j \in 1..Len(dn[i].children)} =
                {combinations(action_space)[j] :
                    j \in 1..Len(combinations(action_space))}
          /\ \A j1, j2 \in 1..Len(dn[i].children) :
                ChildActions(i)[j1] = ChildActions(i)[j2] => j1 = j2
    /\ 0 <= dn[i].explored_children
    /\ dn[i].explored_children <= Len(dn[i].children)

\* While an act call runs, a children list that is populated stays as it is.
ChildrenKept ==
    pc \notin Idle =>
        \A i \in 1..Len(dn) :
            dn[i].children # <<>> =>
                (Len(dn') >= i /\ dn'[i].children = dn[i].children)

\* C18 as stated: at every rollout boundary every decision node of the tree
\* is well formed, and a populated children list is never reordered, extended
\* or shrunk.
C18_DecisionNodesWellFormed ==
    [][/\ RolloutBoundary => \A i \in 1..Len(dn) : WellFormed(i)
       /\ ChildrenKept]_vars

\* C18 as amended: the same at every rollout boundary after the first
\* rollout, when every non-terminal decision node of the tree has been
\* expanded; before it the root is in the tree with no children.
C18_ExpandedNodesWellFormed ==
    [][/\ (RolloutBoundary /\ k >= 1) => \A i \in 1..Len(dn) : WellFormed(i)
       /\ ChildrenKept]_vars

\* C18's case: after four rollouts the tree holds two decision nodes below
\* the root, one of them expanded.
C18_Witness ==
    /\ RolloutBoundary
    /\ k = 4
    /\ Len(dn) >= 3
    /\ \E i \in 2..Len(dn) : ~dn[i].is_terminal /\ dn[i].children # <<>>

\* The decision nodes the selected path of the rollout acts at: those above
\* its chance nodes.  (A terminal decision node at which the path ends has no
\* child, and the rollout is evaluated at the chance node above it.)
PathDecisionNodes == {cn[c].parent : c \in PathChanceNodes}

\* C19: at every rollout boundary the visits of every decision node are the
\* number of sampled returns of its children, and the visits of the root the
\* number of rollouts completed in this act call; the backpropagation of a
\* rollout adds one to the visits of each decision node on the rollout's path
\* and leaves the visits of every other as they are, a decision node starts
\* with no visit, and no other step of an act call changes the visits.
C19_VisitCounts ==
    [][/\ RolloutBoundary =>
             /\ \A i \in 1..Len(dn) : dn[i].visits = SumLen(dn[i].children)
             /\ dn[1].visits = k
       /\ pc \notin Idle =>
             /\ Len(dn') >= Len(dn)
             /\ \A i \in (Len(dn) + 1)..Len(dn') : dn'[i].visits = 0
             /\ \A i \in 1..Len(dn) :
                   dn'[i].visits =
                      dn[i].visits
                        + (IF pc = "backprop" /\ i \in PathDecisionNodes THEN 1 ELSE 0)]_vars

\* C19's case: a rollout has gone through a decision node below the root and
\* counted a visit there.
C19_Witness ==
    /\ RolloutBoundary
    /\ k >= 3
    /\ \E i \in 2..Len(dn) : dn[i].visits >= 1

\* The entries of the History Store that correspond to (s, a).
Matches(s, a) == {i \in 1..Len(histories) : corresponds_to(histories[i], s, a)}

\* C20: the History Store holds at most one entry per (state, action), also
\* when several chance nodes of a tree are labelled by the same pair; so for
\* every chance node of the tree the last entry that corresponds to it (the
\* lookup of ChanceNode.__init__) is the first one (the lookup of
\* update_histories), and the history the node was given at its construction
\* is the list of that entry.
C20_HistoryKeysUnique ==
    /\ \A i, j \in 1..Len(histories) :
          corresponds_to(histories[i], histories[j].state, histories[j].action)
              => i = j
    /\ \A c \in 1..Len(cn) :
          LET m == Matches(dn[cn[c].parent].state, cn[c].action)
          IN  /\ \A i, j \in m : i = j
              /\ cn[c].history # 0 => cn[c].history \in m

\* C20's case: act has returned, the History Store holds several entries,
\* and one of them is for a pair that labels two sampled chance nodes of the
\* tree.
C20_Witness ==
    /\ pc = "returned"
    /\ Len(histories) >= 3
    /\ \E c1, c2 \in 1..Len(cn) :
          /\ c1 # c2
          /\ cn[c1].action = cn[c2].action
          /\ equality_operator(dn[cn[c1].parent].state, dn[cn[c2].parent].state)
          /\ cn[c1].sampled_returns # <<>>
          /\ cn[c2].sampled_returns # <<>>
====
